---- MODULE Spec2Model ----
(***************************************************************************)
(* Verification model of the dairy-farm backend: the Cow table with its    *)
(* save/clean path (core/models.py), the CowInventory aggregate and its    *)
(* CowInventoryUpdateHistory log maintained on every Cow save and delete,  *)
(* the CowDisease record with its clean() checks, and the save paths of    *)
(* CowBreed (core/models.py), WeightRecord and QuarantineRecord            *)
(* (health/models.py).                                                     *)
(*                                                                         *)
(* Tables are sets of rows keyed by pk; the history table is the sequence  *)
(* of its rows in pk order.  Dates are day numbers; NoDate is NULL.        *)
(***************************************************************************)
EXTENDS Integers, Sequences, FiniteSets, TLC

\* ------------------------------------------------------------------ bounds
MaxPk == 2          \* Cow primary keys handed out (number of creates)
MaxHistory == 4     \* rows the history table may hold
MaxDiseasePk == 2   \* CowDisease primary keys handed out
MaxFailures == 1    \* receiver runs that may raise
MaxRecords == 2     \* rows the breed, weight and quarantine tables may hold
MaxDay == 2         \* the last day of the calendar
MaxQuarantines == 1 \* rows the quarantine table may hold
MaxApiRows == 2     \* primary keys a reproduction table hands out

\* ------------------------------------------------------- program constants
NoPk == 0           \* self.pk of an instance never saved (None)
NoDate == 0         \* a NULL DateField
InventoryId == 1    \* the id of the singleton CowInventory row
FirstDay == 1       \* the day the calendar starts

Names == {"General Cow", "UpdatedCow"}
SexChoices == {"Male", "Female"}
\* The strings an instance may hold in gender: the choices, and one string
\* outside them.  Cow.save calls clean(), not full_clean(), and Model.save
\* writes a CharField without looking at its choices.
Genders == SexChoices \cup {"Other"}
CowAvailabilityChoices == {"Alive", "Sold", "Dead"}

\* Checks of Cow.clean whose inputs (age, pregnancy and production status,
\* sire and dam, calf records) are not columns of the modelled row: a
\* candidate carries the set of those checks it violates.
NewCowRules == {"validate_pregnancy_status", "validate_cow_age",
                "validate_sire_dam_relationship", "validate_production_status_1"}
SavedCowRules == {"validate_production_status_2", "validate_age_category"}

\* Candidates that violate none of the rules, and candidates that violate
\* them all.
NoneOrAll(rules) == {{}, rules}

VARIABLES
    cows,        \* Cow table: set of rows
    nextPk,      \* next auto-increment pk of the Cow table
    inventory,   \* CowInventory table: set of rows
    history,     \* CowInventoryUpdateHistory table: sequence of rows
    today,       \* the current date
    result,      \* the last operation and its outcome: "ok" or the failing check
    called,      \* the checks the last save() called, in order of the calls
    pc,          \* "idle", or the operation whose written row awaits its signal
    failures,    \* receiver runs that raised so far
    diseases,    \* CowDisease table: set of rows
    diseasePk,   \* next auto-increment pk of the CowDisease table
    cowDiseaseBound, \* whether the class statement of CowDisease completed
    breeds,      \* CowBreed table: set of rows
    breedPk,     \* next auto-increment pk of the CowBreed table
    weights,     \* WeightRecord table: set of rows
    weightPk,    \* next auto-increment pk of the WeightRecord table
    quarantines, \* QuarantineRecord table: set of rows
    quarantinePk, \* next auto-increment pk of the QuarantineRecord table
    parents,     \* the breed, sire and dam columns of the Cow rows that have them
    cullings,    \* CullingRecord table: set of rows
    heats,       \* Heat table: set of rows
    heatPk,      \* next auto-increment pk of the Heat table
    pregnancies, \* Pregnancy table: set of rows
    pregnancyPk, \* next auto-increment pk of the Pregnancy table
    inseminations, \* Insemination table: set of rows
    inseminationPk, \* next auto-increment pk of the Insemination table
    body         \* the records serialized in the last HTTP response

vars == <<cows, nextPk, inventory, history, today, result, called, pc, failures,
          diseases, diseasePk, cowDiseaseBound, breeds, breedPk, weights, weightPk,
          quarantines, quarantinePk, parents, cullings, heats, heatPk,
          pregnancies, pregnancyPk, inseminations, inseminationPk, body>>
cowVars == <<cows, nextPk, inventory, history>>
diseaseVars == <<diseases, diseasePk, cowDiseaseBound>>
farmVars == <<breeds, breedPk, weights, weightPk, quarantines, quarantinePk>>
refVars == <<parents, cullings>>
apiVars == <<heats, heatPk, pregnancies, pregnancyPk, inseminations,
             inseminationPk, body>>

\* ------------------------------------------------------------- Cow fields
CowFields == [name : Names, gender : Genders,
              availability_status : CowAvailabilityChoices,
              date_of_death : {NoDate, FirstDay}]

CowRow(pk, c, day) ==
    [pk |-> pk, name |-> c.name, gender |-> c.gender,
     availability_status |-> c.availability_status,
     date_of_death |-> c.date_of_death,
     date_introduced_in_farm |-> day]

Pks(table) == {r.pk : r \in table}
Get(table, pk) == CHOOSE r \in table : r.pk = pk

\* ---------------------------------------------------------- Cow validators
validate_uniqueness(name) == \A r \in cows : r.name # name

validate_gender_update(pk, gender) ==
    pk # NoPk => Get(cows, pk).gender = gender

validate_date_of_death(availability_status, date_of_death) ==
    availability_status = "Dead" => date_of_death # NoDate

\* A clean() that checks the age of a new cow before its name.
CowCleanAgeFirst(pk, c, viol) ==
    IF pk # NoPk
    THEN IF "validate_production_status_2" \in viol
              THEN "validate_production_status_2"
         ELSE IF "validate_age_category" \in viol
              THEN "validate_age_category"
         ELSE "ok"
    ELSE IF "validate_pregnancy_status" \in viol
              THEN "validate_pregnancy_status"
         ELSE IF "validate_cow_age" \in viol
              THEN "validate_cow_age"
         ELSE IF ~validate_uniqueness(c.name)
              THEN "validate_uniqueness"
         ELSE IF ~validate_gender_update(pk, c.gender)
              THEN "validate_gender_update"
         ELSE IF "validate_sire_dam_relationship" \in viol
              THEN "validate_sire_dam_relationship"
         ELSE IF "validate_production_status_1" \in viol
              THEN "validate_production_status_1"
         ELSE IF ~validate_date_of_death(c.availability_status, c.date_of_death)
              THEN "validate_date_of_death"
         ELSE "ok"

\* Cow.clean: "ok", or the name of the first check that raises.
CowClean(pk, c, viol) ==
    IF pk # NoPk
    THEN IF "validate_production_status_2" \in viol
              THEN "validate_production_status_2"
         ELSE IF "validate_age_category" \in viol
              THEN "validate_age_category"
         ELSE "ok"
    ELSE IF "validate_pregnancy_status" \in viol
              THEN "validate_pregnancy_status"
         ELSE IF ~validate_uniqueness(c.name)
              THEN "validate_uniqueness"
         ELSE IF "validate_cow_age" \in viol
              THEN "validate_cow_age"
         ELSE IF ~validate_gender_update(pk, c.gender)
              THEN "validate_gender_update"
         ELSE IF "validate_sire_dam_relationship" \in viol
              THEN "validate_sire_dam_relationship"
         ELSE IF "validate_production_status_1" \in viol
              THEN "validate_production_status_1"
         ELSE IF ~validate_date_of_death(c.availability_status, c.date_of_death)
              THEN "validate_date_of_death"
         ELSE "ok"

\* The body of a clean(): its checks are called one after another and the
\* first that raises ends it.  The calls made, given the checks that raise.
RECURSIVE Calls(_, _)
Calls(checks, raising) ==
    IF checks = <<>> THEN <<>>
    ELSE IF Head(checks) \in raising THEN <<Head(checks)>>
    ELSE <<Head(checks)>> \o Calls(Tail(checks), raising)

\* A check that does not hold raises.
Raising(name, holds) == IF holds THEN {} ELSE {name}

\* Cow.clean: the calls it makes on an instance.
CowCleanCalls(pk, c, viol) ==
    IF pk # NoPk
    THEN Calls(<<"validate_production_status_2", "validate_age_category">>, viol)
    ELSE Calls(<<"validate_pregnancy_status", "validate_uniqueness",
                 "validate_cow_age", "validate_gender_update",
                 "validate_sire_dam_relationship",
                 "validate_production_status_1", "validate_pregnancy_status",
                 "validate_date_of_death">>,
               viol \cup Raising("validate_uniqueness", validate_uniqueness(c.name))
                    \cup Raising("validate_gender_update",
                                 validate_gender_update(pk, c.gender))
                    \cup Raising("validate_date_of_death",
                                 validate_date_of_death(c.availability_status,
                                                        c.date_of_death)))

\* ------------------------------------------------------ inventory aggregate
Counters(total, male, female, sold, dead) ==
    [total_number_of_cows |-> total, number_of_male_cows |-> male,
     number_of_female_cows |-> female, number_of_sold_cows |-> sold,
     number_of_dead_cows |-> dead]

ZeroCounters == Counters(0, 0, 0, 0, 0)

InventoryRow(pk, n) ==
    [pk |-> pk,
     total_number_of_cows |-> n.total_number_of_cows,
     number_of_male_cows |-> n.number_of_male_cows,
     number_of_female_cows |-> n.number_of_female_cows,
     number_of_sold_cows |-> n.number_of_sold_cows,
     number_of_dead_cows |-> n.number_of_dead_cows]

CountersOf(row) ==
    Counters(row.total_number_of_cows, row.number_of_male_cows,
             row.number_of_female_cows, row.number_of_sold_cows,
             row.number_of_dead_cows)

\* The recomputation: one count query per counter over the Cow table.
ScanCows(table) ==
    LET alive == {r \in table : r.availability_status = "Alive"}
    IN  Counters(Cardinality(alive),
                 Cardinality({r \in alive : r.gender = "Male"}),
                 Cardinality({r \in alive : r.gender = "Female"}),
                 Cardinality({r \in table : r.availability_status = "Sold"}),
                 Cardinality({r \in table : r.availability_status = "Dead"}))

\* A receiver that keeps one snapshot up to date instead of adding a row.
HistoryOverwriteLast(hist, n) ==
    IF hist = <<>> THEN <<n>> ELSE [hist EXCEPT ![Len(hist)] = n]

\* post_save of CowInventory: one snapshot row appended to the history.
HistoryAfterInventorySave(hist, n) == Append(hist, n)

\* CowInventory.objects.get_or_create(id=1): the tables after it.
GetOrCreateInventory(inv, hist) ==
    IF InventoryId \in Pks(inv)
    THEN [inventory |-> inv, history |-> hist]
    ELSE [inventory |-> inv \cup {InventoryRow(InventoryId, ZeroCounters)},
          history |-> HistoryAfterInventorySave(hist, ZeroCounters)]

\* The post_save / post_delete receiver of Cow: fetch or create the singleton,
\* recompute its counters from the Cow table, save it.
UpdateCowInventory(table, inv, hist) ==
    LET got == GetOrCreateInventory(inv, hist)
        n == ScanCows(table)
    IN  [inventory |-> {r \in got.inventory : r.pk # InventoryId}
                        \cup {InventoryRow(InventoryId, n)},
         history |-> HistoryAfterInventorySave(got.history, n)]

\* History rows one Cow mutation appends in the current state.
HistoryRowsPerMutation == IF InventoryId \in Pks(inventory) THEN 1 ELSE 2

\* ------------------------------------------------------------ Cow mutations
Outcome(op, outcome) == [op |-> op, outcome |-> outcome]

SaveOp(pk) == IF pk = NoPk THEN "Cow.create" ELSE "Cow.update"

CanMutate ==
    /\ pc = "idle"
    /\ Len(history) + HistoryRowsPerMutation <= MaxHistory

\* The Cow table after Model.save writes the instance: an INSERT with a fresh
\* pk for a new instance, an UPDATE of every column otherwise; auto_now
\* stamps date_introduced_in_farm with the current date on both.
WrittenPk(pk) == IF pk = NoPk THEN nextPk ELSE pk

TableAfterWrite(pk, c) ==
    {r \in cows : r.pk # WrittenPk(pk)} \cup {CowRow(WrittenPk(pk), c, today)}

WriteCow(pk, c) ==
    /\ cows' = TableAfterWrite(pk, c)
    /\ nextPk' = IF pk = NoPk THEN nextPk + 1 ELSE nextPk

\* Model.save: the write, then the post_save receiver on the written table.
ModelSaveCow(pk, c) ==
    LET upd == UpdateCowInventory(TableAfterWrite(pk, c), inventory, history)
    IN  /\ WriteCow(pk, c)
        /\ inventory' = upd.inventory
        /\ history' = upd.history

\* A save that writes the row on a path that sends no post_save signal.
CowSaveNoSignal(pk, c, viol) ==
    /\ result' = Outcome(SaveOp(pk), CowClean(pk, c, viol))
    /\ called' = CowCleanCalls(pk, c, viol)
    /\ IF CowClean(pk, c, viol) = "ok"
       THEN WriteCow(pk, c) /\ UNCHANGED <<inventory, history>>
       ELSE UNCHANGED cowVars

\* Cow.save: clean(), then super().save().
CowSave(pk, c, viol) ==
    /\ result' = Outcome(SaveOp(pk), CowClean(pk, c, viol))
    /\ called' = CowCleanCalls(pk, c, viol)
    /\ IF CowClean(pk, c, viol) = "ok"
       THEN ModelSaveCow(pk, c)
       ELSE UNCHANGED cowVars

\* Cow.objects.create(**fields): save() of an instance without pk.
CowCreate ==
    \E c \in CowFields, viol \in NoneOrAll(NewCowRules) :
        /\ CanMutate
        /\ nextPk <= MaxPk
        /\ CowSave(NoPk, c, viol)
        /\ UNCHANGED <<today, pc, failures, diseaseVars, farmVars,
                       apiVars, refVars>>

\* Assigning fields of a stored cow and calling save().
CowUpdate ==
    \E pk \in Pks(cows), c \in CowFields, viol \in NoneOrAll(SavedCowRules) :
        /\ CanMutate
        /\ CowSave(pk, c, viol)
        /\ UNCHANGED <<today, pc, failures, diseaseVars, farmVars,
                       apiVars, refVars>>

\* A delete that leaves every row that references the cow as it is.
CascadeNothing(pk) ==
    UNCHANGED <<farmVars, refVars>>

\* The collector of cow.delete(), by the on_delete option of each relation to
\* Cow: the cow's weight, quarantine and culling records go with it (CASCADE)
\* and so do its own breed, sire and dam columns; a sire or dam column of
\* another cow that names it becomes NULL (SET_NULL).
CascadeCow(pk) ==
    /\ weights' = {w \in weights : w.cow # pk}
    /\ quarantines' = {q \in quarantines : q.cow # pk}
    /\ cullings' = {k \in cullings : k.cow # pk}
    /\ parents' = {[p EXCEPT !.sire = IF @ = pk THEN NoPk ELSE @,
                             !.dam = IF @ = pk THEN NoPk ELSE @] :
                       p \in {q \in parents : q.cow # pk}}
    /\ UNCHANGED <<breeds, breedPk, weightPk, quarantinePk>>

\* A delete whose post_delete signal reaches no receiver.
CowDeleteNoSignal ==
    \E pk \in Pks(cows) :
        /\ CanMutate
        /\ cows' = {r \in cows : r.pk # pk}
        /\ CascadeCow(pk)
        /\ result' = Outcome("Cow.delete", "ok")
        /\ called' = <<>>
        /\ UNCHANGED <<nextPk, inventory, history, today, pc, failures,
                       diseaseVars, apiVars>>

\* cow.delete(): the row is removed, then the post_delete receiver runs.
CowDelete ==
    \E pk \in Pks(cows) :
        LET table == {r \in cows : r.pk # pk}
            upd == UpdateCowInventory(table, inventory, history)
        IN  /\ CanMutate
            /\ cows' = table
            /\ inventory' = upd.inventory
            /\ history' = upd.history
            /\ CascadeCow(pk)
            /\ result' = Outcome("Cow.delete", "ok")
            /\ called' = <<>>
            /\ UNCHANGED <<nextPk, today, pc, failures, diseaseVars, apiVars>>

\* ------------------------------------------------------------ specification
\* The tables and the clock after construction.
InitTables ==
    /\ cows = {}
    /\ nextPk = 1
    /\ inventory = {}
    /\ history = <<>>
    /\ today = FirstDay
    /\ result = Outcome("none", "ok")
    /\ called = <<>>
    /\ pc = "idle"
    /\ failures = 0
    /\ diseases = {}
    /\ diseasePk = 1
    /\ breeds = {}
    /\ breedPk = 1
    /\ weights = {}
    /\ weightPk = 1
    /\ quarantines = {}
    /\ quarantinePk = 1
    /\ parents = {}
    /\ cullings = {}
    /\ heats = {}
    /\ heatPk = 1
    /\ pregnancies = {}
    /\ pregnancyPk = 1
    /\ inseminations = {}
    /\ inseminationPk = 1
    /\ body = {}

\* core/models.py as it stands: the class body of CowDisease (lines 257-265)
\* reads Pathogen, CategoryDisease, Symptoms and Treatment, which the module
\* neither imports (lines 1-16) nor defines, so the class statement raises
\* NameError and CowDisease is never bound.
Init ==
    /\ InitTables
    /\ cowDiseaseBound = FALSE

\* The module as it stands, or run where the four names are supplied to it,
\* as the fixtures of tests/core/tests/test_models.py take them to be.
InitDisease ==
    /\ InitTables
    /\ cowDiseaseBound \in BOOLEAN

Next == CowCreate \/ CowUpdate \/ CowDelete

Spec == Init /\ [][Next]_vars

\* ------------------------------------- Cow mutations, one commit per step
\* No transaction encloses Cow.save: the row write commits, and the post_save
\* receiver then runs as a second step.  pc names the save whose row is
\* written and whose signal is still to be handled.  cow.delete() is one
\* step: the collector deletes the rows and sends post_delete inside one
\* transaction.
CowSaveWrite ==
    \E pk \in {NoPk} \cup Pks(cows), c \in CowFields :
      \E viol \in NoneOrAll(IF pk = NoPk THEN NewCowRules ELSE SavedCowRules) :
        /\ CanMutate
        /\ pk = NoPk => nextPk <= MaxPk
        /\ called' = CowCleanCalls(pk, c, viol)
        /\ IF CowClean(pk, c, viol) = "ok"
           THEN /\ WriteCow(pk, c)
                /\ pc' = SaveOp(pk)
                /\ UNCHANGED result
           ELSE /\ result' = Outcome(SaveOp(pk), CowClean(pk, c, viol))
                /\ UNCHANGED <<cows, nextPk, pc>>
        /\ UNCHANGED <<inventory, history, today, failures, diseaseVars, farmVars,
                       apiVars, refVars>>

\* cow.delete() whose post_delete receiver raises (a database error): the
\* collector's transaction rolls back, the cow and the rows that reference
\* it stay, and the exception leaves delete().
CowDeleteRaises ==
    \E pk \in Pks(cows) :
        /\ CanMutate
        /\ failures < MaxFailures
        /\ failures' = failures + 1
        /\ result' = Outcome("Cow.delete", "DatabaseError")
        /\ called' = <<>>
        /\ UNCHANGED <<cowVars, today, pc, diseaseVars, farmVars, apiVars,
                       refVars>>

\* The receiver handles the pending signal and the operation returns.
ReceiverRuns ==
    LET upd == UpdateCowInventory(cows, inventory, history)
    IN  /\ pc # "idle"
        /\ inventory' = upd.inventory
        /\ history' = upd.history
        /\ result' = Outcome(pc, "ok")
        /\ pc' = "idle"
        /\ UNCHANGED <<called, cows, nextPk, today, failures, diseaseVars, farmVars,
                       apiVars, refVars>>

\* The post_save receiver's queries raise (a database error): the exception
\* leaves save(), and nothing undoes the row already written.
ReceiverRaises ==
    /\ pc # "idle"
    /\ failures < MaxFailures
    /\ failures' = failures + 1
    /\ result' = Outcome(pc, "DatabaseError")
    /\ pc' = "idle"
    /\ UNCHANGED <<called, cowVars, today, diseaseVars, farmVars,
                       apiVars, refVars>>

NextSteps ==
    \/ CowSaveWrite \/ ReceiverRuns \/ ReceiverRaises
    \/ CowDelete \/ CowDeleteRaises

SpecSteps == Init /\ [][NextSteps]_vars

\* ----------------------------------------------------------------- CowDisease
NoPathogen == "None"
DiseaseNames == {"", "Test disease"}
Pathogens == {NoPathogen, "Pathogen Test For Cow"}
DiseaseDates == {NoDate, FirstDay, FirstDay + 1}

DiseaseFields == [name : DiseaseNames, pathogen : Pathogens,
                  date_reported : DiseaseDates, is_recovered : BOOLEAN,
                  recovered_date : DiseaseDates]

DiseaseRow(pk, d, treated) ==
    [pk |-> pk, name |-> d.name, pathogen |-> d.pathogen,
     date_reported |-> d.date_reported, is_recovered |-> d.is_recovered,
     recovered_date |-> d.recovered_date, treated |-> treated]

Raised(exception, line) == [exception |-> exception, line |-> line]
Passed == Raised("none", 0)

\* CowDisease.clean on an instance with primary key pk and fields d: what it
\* raises and on which line.  The module django.db.models has no attribute
\* ValidationError, the name modelsl is not defined, a related manager has no
\* attribute exist, None does not compare with a date, the pathogen of an
\* instance without one cannot be read, and the treatments of an instance
\* never saved cannot be reached.
DiseaseClean(pk, d) ==
    IF d.is_recovered /\ d.recovered_date = NoDate
        THEN Raised("AttributeError", 272)
    ELSE IF d.recovered_date # NoDate /\ ~d.is_recovered
        THEN Raised("AttributeError", 275)
    ELSE IF d.recovered_date # NoDate /\ d.date_reported = NoDate
        THEN Raised("NameError", 278)
    ELSE IF d.date_reported = NoDate
        THEN Raised("TypeError", 280)
    ELSE IF d.date_reported > today
        THEN Raised("AttributeError", 281)
    ELSE IF d.name = ""
        THEN Raised("AttributeError", 284)
    ELSE IF d.pathogen = NoPathogen
        THEN Raised("RelatedObjectDoesNotExist", 283)
    ELSE IF d.is_recovered /\ pk = NoPk
        THEN Raised("ValueError", 286)
    ELSE IF d.is_recovered
        THEN Raised("AttributeError", 286)
    ELSE Passed

\* The constraints of the table: name is unique, pathogen and date_reported
\* are NOT NULL.
DiseaseIntegrity(pk, d, day) ==
    /\ \A r \in diseases : r.pk # pk => r.name # d.name
    /\ d.pathogen # NoPathogen
    /\ day # NoDate

\* CowDisease.objects.create(**fields): the name CowDisease is unbound and
\* reading it raises NameError; where it is bound, Model.save runs, which
\* calls no clean(), and auto_now_add stamps date_reported with the current
\* date.
DiseaseCreateOf(d) ==
    /\ diseasePk <= MaxDiseasePk
    /\ called' = <<>>
    /\ IF ~cowDiseaseBound
       THEN /\ result' = Outcome("CowDisease.create", "NameError")
            /\ UNCHANGED <<diseases, diseasePk>>
       ELSE IF DiseaseIntegrity(NoPk, d, today)
       THEN /\ diseases' = diseases \cup
                    {DiseaseRow(diseasePk, [d EXCEPT !.date_reported = today], FALSE)}
            /\ diseasePk' = diseasePk + 1
            /\ result' = Outcome("CowDisease.create", "ok")
       ELSE /\ result' = Outcome("CowDisease.create", "IntegrityError")
            /\ UNCHANGED <<diseases, diseasePk>>
    /\ UNCHANGED <<cowVars, farmVars, today, pc, failures, cowDiseaseBound,
                   apiVars, refVars>>

DiseaseCreate == \E d \in DiseaseFields : DiseaseCreateOf(d)

\* Assigning fields of a stored disease and calling save(): Model.save again.
\* A disease is stored only where the class is bound.
DiseaseSave ==
    \E r \in diseases, d \in DiseaseFields :
        /\ called' = <<>>
        /\ IF DiseaseIntegrity(r.pk, d, d.date_reported)
           THEN /\ diseases' = (diseases \ {r}) \cup {DiseaseRow(r.pk, d, r.treated)}
                /\ result' = Outcome("CowDisease.save", "ok")
           ELSE /\ result' = Outcome("CowDisease.save", "IntegrityError")
                /\ UNCHANGED diseases
        /\ UNCHANGED <<cowVars, farmVars, today, pc, failures, diseasePk,
                       cowDiseaseBound, apiVars, refVars>>

\* disease.treatments.add(treatment) on a stored disease, which may have the
\* treatment already.
DiseaseAddTreatment ==
    \E r \in diseases :
        /\ diseases' = (diseases \ {r}) \cup {[r EXCEPT !.treated = TRUE]}
        /\ result' = Outcome("CowDisease.treatments.add", "ok")
        /\ called' = <<>>
        /\ UNCHANGED <<cowVars, farmVars, today, pc, failures, diseasePk,
                       cowDiseaseBound, apiVars, refVars>>

\* disease.clean() called on a stored disease whose fields were assigned, or
\* on an instance never saved: the tables are left alone.  Where CowDisease
\* is unbound, building the instance raises NameError.
DiseaseCleanOn(pk, d) ==
    /\ result' = Outcome("CowDisease.clean",
                          IF cowDiseaseBound THEN DiseaseClean(pk, d).exception
                          ELSE "NameError")
    /\ called' = <<>>
    /\ UNCHANGED <<cowVars, farmVars, today, pc, failures, diseaseVars,
                       apiVars, refVars>>

DiseaseCleanCall ==
    \E pk \in {NoPk} \cup Pks(diseases), d \in DiseaseFields : DiseaseCleanOn(pk, d)

NextDisease == DiseaseCreate \/ DiseaseSave \/ DiseaseAddTreatment \/ DiseaseCleanCall

SpecDisease == InitDisease /\ [][NextDisease]_vars

\* ------------------------------------------------------------------- CowBreed
CowBreedChoices == {"Jersey", "Friesian"}
BreedNames == CowBreedChoices \cup {"unknown_breed"}

BreedRow(pk, name) == [pk |-> pk, name |-> name]

\* Rows in the breed, weight and quarantine tables, and room for one more.
FarmRows == Cardinality(breeds) + Cardinality(weights) + Cardinality(quarantines)
HasRoom == FarmRows < MaxRecords

\* CowBreedValidator.validate_breed_name: "ok", or the code of the error.
validate_breed_name(name) ==
    IF name \notin CowBreedChoices THEN "invalid_cow_breed"
    ELSE IF \E b \in breeds : b.name = name THEN "duplicate_cow_breed"
    ELSE "ok"

BreedOp(pk) == IF pk = NoPk THEN "CowBreed.create" ELSE "CowBreed.update"

\* Model.save of a breed: INSERT with a fresh pk, or UPDATE of the row.
WriteBreed(pk, name) ==
    /\ breeds' = {b \in breeds : b.pk # pk} \cup
                    {BreedRow(IF pk = NoPk THEN breedPk ELSE pk, name)}
    /\ breedPk' = IF pk = NoPk THEN breedPk + 1 ELSE breedPk

BreedFrame ==
    UNCHANGED <<cowVars, diseaseVars, weights, weightPk, quarantines,
                quarantinePk, today, pc, failures,
                       apiVars, refVars>>

\* A save that goes to Model.save without the validator.
BreedSaveUnchecked(pk, name) ==
    /\ result' = Outcome(BreedOp(pk), "ok")
    /\ called' = <<>>
    /\ WriteBreed(pk, name)
    /\ BreedFrame

\* CowBreed.save: validate_breed_name(self.name), then super().save().
BreedSave(pk, name) ==
    /\ result' = Outcome(BreedOp(pk), validate_breed_name(name))
    /\ called' = <<"validate_breed_name">>
    /\ IF validate_breed_name(name) = "ok"
       THEN WriteBreed(pk, name)
       ELSE UNCHANGED <<breeds, breedPk>>
    /\ BreedFrame

\* CowBreed.objects.create(name=name).
BreedCreate == \E name \in BreedNames : HasRoom /\ BreedSave(NoPk, name)

\* breed.name = name; breed.save().
BreedUpdate == \E b \in breeds, name \in BreedNames : BreedSave(b.pk, name)

\* --------------------------------------------------------------- WeightRecord
Days == FirstDay..MaxDay
WeightValues == {-1, 0, 1}

\* A WeightRecord instance: date_taken is NoDate unless the caller passed one.
WeightFields(dates) == [cow : Pks(cows), weight_in_kgs : WeightValues, date_taken : dates]

WeightRow(pk, w, day) ==
    [pk |-> pk, cow |-> w.cow, weight_in_kgs |-> w.weight_in_kgs, date_taken |-> day]

\* WeightRecordValidator: each check holds or raises ValidationError.
validate_weight(weight_in_kgs) == weight_in_kgs > 0

validate_cow_availability_status(cow) == Get(cows, cow).availability_status # "Dead"

validate_frequency_of_weight_records(date_taken, cow) ==
    ~ \E r \in weights : r.cow = cow /\ r.date_taken = date_taken

\* A clean() without the check of the cow.
WeightCleanNoCow(w) ==
    IF ~validate_weight(w.weight_in_kgs)
        THEN "validate_weight"
    ELSE IF ~validate_frequency_of_weight_records(w.date_taken, w.cow)
        THEN "validate_frequency_of_weight_records"
    ELSE "ok"

\* A clean() that checks the frequency before the cow.
WeightCleanFrequencyFirst(w) ==
    IF ~validate_weight(w.weight_in_kgs)
        THEN "validate_weight"
    ELSE IF ~validate_frequency_of_weight_records(w.date_taken, w.cow)
        THEN "validate_frequency_of_weight_records"
    ELSE IF ~validate_cow_availability_status(w.cow)
        THEN "validate_cow_availability_status"
    ELSE "ok"

\* WeightRecord.clean: "ok", or the name of the first check that raises.
WeightClean(w) ==
    IF ~validate_weight(w.weight_in_kgs)
        THEN "validate_weight"
    ELSE IF ~validate_cow_availability_status(w.cow)
        THEN "validate_cow_availability_status"
    ELSE IF ~validate_frequency_of_weight_records(w.date_taken, w.cow)
        THEN "validate_frequency_of_weight_records"
    ELSE "ok"

\* WeightRecord.clean: the calls it makes on an instance.
WeightCleanCalls(w) ==
    Calls(<<"validate_weight", "validate_cow_availability_status",
            "validate_frequency_of_weight_records">>,
          Raising("validate_weight", validate_weight(w.weight_in_kgs))
              \cup Raising("validate_cow_availability_status",
                           validate_cow_availability_status(w.cow))
              \cup Raising("validate_frequency_of_weight_records",
                           validate_frequency_of_weight_records(w.date_taken, w.cow)))

WeightOp(pk) == IF pk = NoPk THEN "WeightRecord.create" ELSE "WeightRecord.update"

\* date_taken is NOT NULL: an INSERT is stamped by auto_now_add, an UPDATE
\* writes the instance's date_taken, and the database refuses a NULL.
WeightIntegrity(pk, w) == pk # NoPk => w.date_taken # NoDate

\* Model.save of a weight record: on INSERT auto_now_add stamps date_taken
\* with the current date, whatever the instance held; an UPDATE writes the
\* instance's date_taken, and an IntegrityError leaves the table as it was.
WriteWeight(pk, w) ==
    IF WeightIntegrity(pk, w)
    THEN /\ weights' = {r \in weights : r.pk # pk} \cup
                         {IF pk = NoPk THEN WeightRow(weightPk, w, today)
                                       ELSE WeightRow(pk, w, w.date_taken)}
         /\ weightPk' = IF pk = NoPk THEN weightPk + 1 ELSE weightPk
    ELSE UNCHANGED <<weights, weightPk>>

WeightFrame ==
    UNCHANGED <<cowVars, diseaseVars, breeds, breedPk, quarantines,
                quarantinePk, today, pc, failures,
                       apiVars, refVars>>

\* A save that goes to Model.save without clean().
WeightSaveUnchecked(pk, w) ==
    /\ result' = Outcome(WeightOp(pk), IF WeightIntegrity(pk, w) THEN "ok"
                                        ELSE "IntegrityError")
    /\ called' = <<>>
    /\ WriteWeight(pk, w)
    /\ WeightFrame

\* WeightRecord.save: clean(), then super().save().
WeightSave(pk, w) ==
    /\ result' = Outcome(WeightOp(pk),
                          IF WeightClean(w) # "ok" THEN WeightClean(w)
                          ELSE IF WeightIntegrity(pk, w) THEN "ok"
                          ELSE "IntegrityError")
    /\ called' = WeightCleanCalls(w)
    /\ IF WeightClean(w) = "ok"
       THEN WriteWeight(pk, w)
       ELSE UNCHANGED <<weights, weightPk>>
    /\ WeightFrame

\* WeightRecord.objects.create(cow=..., weight_in_kgs=...[, date_taken=...]).
WeightCreate ==
    \E w \in WeightFields({NoDate} \cup Days) : HasRoom /\ WeightSave(NoPk, w)

\* Assigning fields of a stored weight record and calling save().
WeightUpdate ==
    \E r \in weights, w \in WeightFields({NoDate} \cup Days) : WeightSave(r.pk, w)

\* ----------------------------------------------------------- QuarantineRecord
QuarantineReasonChoices == {"Sick Cow", "Bought Cow", "New Cow", "Calving"}

\* The check of QuarantineRecord.clean whose inputs (the cow's pregnancy and
\* history) are not columns of the modelled rows: a candidate names it when
\* it violates it.
QuarantineRules == {"validate_reason"}

\* Room for one more quarantine record.
QuarantineHasRoom == HasRoom /\ Cardinality(quarantines) < MaxQuarantines

QuarantineFields(starts) ==
    [cow : Pks(cows), reason : QuarantineReasonChoices,
     start_date : starts, end_date : {NoDate} \cup Days]

QuarantineRow(pk, q, day) ==
    [pk |-> pk, cow |-> q.cow, reason |-> q.reason, start_date |-> day,
     end_date |-> q.end_date]

\* QuarantineValidator.validate_date: an end date before the start date raises.
validate_date(start_date, end_date) ==
    ~ (start_date # NoDate /\ end_date # NoDate /\ end_date < start_date)

\* QuarantineRecord.clean: "ok", or the name of the first check that raises.
QuarantineClean(q, viol) ==
    IF "validate_reason" \in viol
        THEN "validate_reason"
    ELSE IF ~validate_date(q.start_date, q.end_date)
        THEN "validate_date"
    ELSE "ok"

\* QuarantineRecord.clean: the calls it makes on an instance.
QuarantineCleanCalls(q, viol) ==
    Calls(<<"validate_reason", "validate_date">>,
          viol \cup Raising("validate_date", validate_date(q.start_date, q.end_date)))

QuarantineOp(pk) ==
    IF pk = NoPk THEN "QuarantineRecord.create" ELSE "QuarantineRecord.update"

\* start_date is NOT NULL: an INSERT is stamped by auto_now_add, an UPDATE
\* writes the instance's start_date, and the database refuses a NULL.
QuarantineIntegrity(pk, q) == pk # NoPk => q.start_date # NoDate

\* Model.save of a quarantine record: on INSERT auto_now_add stamps
\* start_date with the current date, whatever the instance held; an UPDATE
\* writes the instance's start_date, and an IntegrityError leaves the table
\* as it was.
WriteQuarantine(pk, q) ==
    IF QuarantineIntegrity(pk, q)
    THEN /\ quarantines' = {r \in quarantines : r.pk # pk} \cup
                             {IF pk = NoPk THEN QuarantineRow(quarantinePk, q, today)
                                           ELSE QuarantineRow(pk, q, q.start_date)}
         /\ quarantinePk' = IF pk = NoPk THEN quarantinePk + 1 ELSE quarantinePk
    ELSE UNCHANGED <<quarantines, quarantinePk>>

\* A save that writes the row before it runs clean().
QuarantineSaveWriteFirst(pk, q, viol) ==
    /\ result' = Outcome(QuarantineOp(pk),
                          IF ~QuarantineIntegrity(pk, q) THEN "IntegrityError"
                          ELSE QuarantineClean(q, viol))
    /\ called' = IF QuarantineIntegrity(pk, q) THEN QuarantineCleanCalls(q, viol)
                  ELSE <<>>
    /\ WriteQuarantine(pk, q)
    /\ UNCHANGED <<cowVars, diseaseVars, breeds, breedPk, weights, weightPk,
                   today, pc, failures,
                       apiVars, refVars>>

\* QuarantineRecord.save: clean(), then super().save().
QuarantineSave(pk, q, viol) ==
    /\ result' = Outcome(QuarantineOp(pk),
                          IF QuarantineClean(q, viol) # "ok" THEN QuarantineClean(q, viol)
                          ELSE IF QuarantineIntegrity(pk, q) THEN "ok"
                          ELSE "IntegrityError")
    /\ called' = QuarantineCleanCalls(q, viol)
    /\ IF QuarantineClean(q, viol) = "ok"
       THEN WriteQuarantine(pk, q)
       ELSE UNCHANGED <<quarantines, quarantinePk>>
    /\ UNCHANGED <<cowVars, diseaseVars, breeds, breedPk, weights, weightPk,
                   today, pc, failures,
                       apiVars, refVars>>

\* QuarantineRecord.objects.create(cow=..., reason=...[, start_date=...]
\* [, end_date=...]).
QuarantineCreate ==
    \E q \in QuarantineFields({NoDate} \cup Days), viol \in SUBSET QuarantineRules :
        QuarantineHasRoom /\ QuarantineSave(NoPk, q, viol)

\* Assigning fields of a stored quarantine record and calling save().
QuarantineUpdate ==
    \E r \in quarantines, q \in QuarantineFields({NoDate} \cup Days),
       viol \in SUBSET QuarantineRules :
        QuarantineSave(r.pk, q, viol)

\* ------------------------------------------------------------------- the farm
\* The cow of the fixtures: General Cow, a female, alive or dead.
HerdCowFields ==
    {c \in CowFields : /\ c.name = "General Cow"
                       /\ c.gender = "Female"
                       /\ c.availability_status \in {"Alive", "Dead"}}

HerdCowCreate ==
    \E c \in HerdCowFields, viol \in SUBSET NewCowRules :
        /\ CanMutate
        /\ nextPk <= MaxPk
        /\ CowSave(NoPk, c, viol)
        /\ UNCHANGED <<today, pc, failures, diseaseVars, farmVars,
                       apiVars, refVars>>

\* Assigning fields of the fixture cow and calling save().
HerdCowUpdate ==
    \E pk \in Pks(cows), c \in HerdCowFields, viol \in SUBSET SavedCowRules :
        /\ CanMutate
        /\ CowSave(pk, c, viol)
        /\ UNCHANGED <<today, pc, failures, diseaseVars, farmVars, apiVars, refVars>>

\* cow.availability_status = "Dead"; cow.save(), on a living cow that
\* violates no rule of a stored cow.
HerdCowDies ==
    \E r \in cows :
        /\ r.availability_status = "Alive"
        /\ CanMutate
        /\ CowSave(r.pk, [name |-> r.name, gender |-> r.gender,
                          availability_status |-> "Dead",
                          date_of_death |-> r.date_of_death], {})
        /\ UNCHANGED <<today, pc, failures, diseaseVars, farmVars, apiVars, refVars>>

\* Midnight: date.today() moves on.
Tick ==
    /\ today < MaxDay
    /\ today' = today + 1
    /\ UNCHANGED <<cowVars, diseaseVars, farmVars, result, called, pc, failures,
                       apiVars, refVars>>

NextFarm ==
    \/ HerdCowCreate
    \/ BreedCreate \/ BreedUpdate
    \/ WeightCreate \/ WeightUpdate
    \/ Tick

SpecFarm == Init /\ [][NextFarm]_vars

\* The fixture cow and its quarantine records over the days.
NextQuarantine == HerdCowCreate \/ QuarantineCreate \/ QuarantineUpdate \/ Tick

SpecQuarantine == Init /\ [][NextQuarantine]_vars

\* Cow.objects.create of the fixture cow while no record of the farm is
\* stored: the fixtures create their cows before the records.
HerdCowCreateFirst ==
    /\ weights = {}
    /\ quarantines = {}
    /\ HerdCowCreate

\* Saves of the four entities with a validating save(), on one day.
NextSaves ==
    \/ HerdCowCreateFirst
    \/ BreedCreate
    \/ WeightCreate
    \/ QuarantineCreate \/ QuarantineUpdate

SpecSaves == Init /\ [][NextSaves]_vars

\* ----------------------------------------------------- relations to Cow
\* The breed, sire and dam columns of a cow created with them.
ParentRow(cow, breed, sire, dam) ==
    [cow |-> cow, breed |-> breed, sire |-> sire, dam |-> dam]

\* Living female cows under either name.
RefCowFields ==
    {c \in CowFields : /\ c.gender = "Female"
                       /\ c.availability_status = "Alive"
                       /\ c.date_of_death = NoDate}

\* Cow.objects.create(breed=..., sire=..., dam=..., **fields): breed is a
\* stored breed, sire and dam are stored cows or None.
RefCowCreate ==
    \E c \in RefCowFields, viol \in {{}} :   \* every validator passes
      \E breed \in Pks(breeds), sire \in {NoPk} \cup Pks(cows),
         dam \in {NoPk} \cup Pks(cows) :
        /\ CanMutate
        /\ nextPk <= MaxPk
        /\ CowSave(NoPk, c, viol)
        /\ parents' = IF CowClean(NoPk, c, viol) = "ok"
                      THEN parents \cup {ParentRow(nextPk, breed, sire, dam)}
                      ELSE parents
        /\ UNCHANGED <<today, pc, failures, diseaseVars, farmVars, apiVars,
                       cullings>>

\* CullingRecord.objects.create(cow=...): the one-to-one column admits one
\* culling record per cow, a second one is an IntegrityError.
CullingCreate ==
    \E cow \in Pks(cows) :
        /\ called' = <<>>
        /\ IF \E k \in cullings : k.cow = cow
           THEN /\ result' = Outcome("CullingRecord.create", "IntegrityError")
                /\ UNCHANGED cullings
           ELSE /\ result' = Outcome("CullingRecord.create", "ok")
                /\ cullings' = cullings \cup {[cow |-> cow]}
        /\ UNCHANGED <<cowVars, today, pc, failures, diseaseVars, farmVars,
                       apiVars, parents>>

\* A delete that removes the breed whether or not a cow references it.
BreedDeleteUnprotected(pk) ==
    /\ result' = Outcome("CowBreed.delete", "ok")
    /\ called' = <<>>
    /\ breeds' = {b \in breeds : b.pk # pk}
    /\ UNCHANGED <<cowVars, today, pc, failures, diseaseVars, breedPk, weights,
                   weightPk, quarantines, quarantinePk, apiVars, refVars>>

\* breed.delete(): Cow.breed is on_delete=PROTECT, so the collector raises
\* ProtectedError while a cow references the breed and nothing is deleted.
BreedDeleteOf(pk) ==
    /\ called' = <<>>
    /\ IF \E p \in parents : p.breed = pk
       THEN /\ result' = Outcome("CowBreed.delete", "ProtectedError")
            /\ UNCHANGED breeds
       ELSE /\ result' = Outcome("CowBreed.delete", "ok")
            /\ breeds' = {b \in breeds : b.pk # pk}
    /\ UNCHANGED <<cowVars, today, pc, failures, diseaseVars, breedPk, weights,
                   weightPk, quarantines, quarantinePk, apiVars, refVars>>

BreedDelete == \E pk \in Pks(breeds) : BreedDeleteOf(pk)

\* Breeds, cows with their parents, their records, and deletes of each.
\* A breed of the choices, a weighing and an open quarantine of a stored cow;
\* each table is written while its next pk is within its bound.
RefBreedCreate ==
    \E name \in CowBreedChoices :
        breedPk <= MaxRecords /\ HasRoom /\ BreedSave(NoPk, name)

RefWeightCreate ==
    \E cow \in Pks(cows) :
        /\ weightPk <= MaxRecords
        /\ HasRoom
        /\ WeightSave(NoPk, [cow |-> cow, weight_in_kgs |-> 1, date_taken |-> NoDate])

RefQuarantineCreate ==
    \E cow \in Pks(cows), reason \in QuarantineReasonChoices :
        /\ quarantinePk <= MaxQuarantines
        /\ QuarantineHasRoom
        /\ QuarantineSave(NoPk, [cow |-> cow, reason |-> reason,
                                 start_date |-> NoDate, end_date |-> NoDate], {})

NextRefs ==
    \/ RefBreedCreate \/ BreedDelete
    \/ RefCowCreate \/ CowDelete
    \/ RefWeightCreate \/ RefQuarantineCreate \/ CullingCreate

SpecRefs == Init /\ [][NextRefs]_vars

\* The fixture cow created and updated over the days.
NextHerd == HerdCowCreate \/ HerdCowUpdate \/ Tick

SpecHerd == Init /\ [][NextHerd]_vars

\* Saves through the three clean() methods that run several checks, on one
\* day: a cow that has a weight record may be marked dead.
NextChecks == HerdCowCreateFirst \/ HerdCowDies \/ WeightCreate \/ QuarantineCreate

SpecChecks == Init /\ [][NextChecks]_vars

\* ---------------------------------------------------------- reproduction views
\* The role of the user who sends a request, and the permission classes.
Roles == {"farm_worker", "team_leader", "assistant_farm_manager",
          "farm_manager", "farm_owner"}

IsFarmWorker(user) == user = "farm_worker"
IsTeamLeader(user) == user = "team_leader"
IsAssistantFarmManager(user) == user = "assistant_farm_manager"
IsFarmManager(user) == user = "farm_manager"
IsFarmOwner(user) == user = "farm_owner"

\* A request's query string: a filter on the cow of the records, or none, and
\* an ordering parameter, or none.
NoFilter == "None"
Queries == [filter : {NoFilter} \cup Names, ordering : BOOLEAN]
HasQueryParams(query) == query.filter # NoFilter \/ query.ordering

\* self.filter_queryset(self.get_queryset()).
FilterQueryset(table, query) ==
    IF query.filter = NoFilter THEN table
    ELSE {r \in table : r.cow = query.filter}

\* Primary keys a request may name, stored or not.
ApiPks == 1..MaxApiRows

\* The response: its status code and the records serialized in it.
Respond(op, status, rows) ==
    /\ result' = Outcome(op, status)
    /\ called' = <<>>
    /\ body' = rows

ApiFrame == UNCHANGED <<cowVars, diseaseVars, farmVars, refVars, today, pc, failures>>

\* The body of the three list() methods.
ListResponse(op, table, query) ==
    IF FilterQueryset(table, query) = {}
    THEN IF HasQueryParams(query)
         THEN Respond(op, "404", {})
         ELSE Respond(op, "200", {})
    ELSE Respond(op, "200", FilterQueryset(table, query))

\* RetrieveModelMixin.retrieve: get_object() or 404.
RetrieveResponse(op, table, pk) ==
    IF pk \in Pks(table)
    THEN Respond(op, "200", {Get(table, pk)})
    ELSE Respond(op, "404", {})

\* ----------------------------------------------------------------- HeatViewSet
HeatRow(pk, cow) == [pk |-> pk, cow |-> cow]

HeatFrame ==
    /\ ApiFrame
    /\ UNCHANGED <<pregnancies, pregnancyPk, inseminations, inseminationPk>>

\* HeatViewSet.get_permissions, evaluated for the user.
HeatPermitted(action, user) ==
    IF action = "create"
    THEN \/ IsFarmWorker(user) \/ IsAssistantFarmManager(user)
         \/ IsFarmManager(user) \/ IsFarmOwner(user)
    ELSE IsAssistantFarmManager(user) \/ IsFarmManager(user) \/ IsFarmOwner(user)

\* A request the permission check turns down: 403, nothing changes.
HeatDenied(op) ==
    /\ Respond(op, "403", {})
    /\ UNCHANGED <<heats, heatPk>>

HeatListBy(user, query) ==
    /\ IF HeatPermitted("list", user)
       THEN ListResponse("Heat.list", heats, query) /\ UNCHANGED <<heats, heatPk>>
       ELSE HeatDenied("Heat.list")
    /\ HeatFrame

HeatRetrieveBy(user, pk) ==
    /\ IF HeatPermitted("retrieve", user)
       THEN RetrieveResponse("Heat.retrieve", heats, pk) /\ UNCHANGED <<heats, heatPk>>
       ELSE HeatDenied("Heat.retrieve")
    /\ HeatFrame

\* CreateModelMixin.create: 400 when the serializer rejects the data, else the
\* record is stored and returned with 201.
HeatCreateBy(user, cow, valid) ==
    /\ heatPk <= MaxApiRows
    /\ IF ~HeatPermitted("create", user)
       THEN HeatDenied("Heat.create")
       ELSE IF ~valid
       THEN Respond("Heat.create", "400", {}) /\ UNCHANGED <<heats, heatPk>>
       ELSE /\ heats' = heats \cup {HeatRow(heatPk, cow)}
            /\ heatPk' = heatPk + 1
            /\ Respond("Heat.create", "201", {HeatRow(heatPk, cow)})
    /\ HeatFrame

\* A destroy left to DestroyModelMixin: the record is deleted.
HeatDestroyDeletes(user, pk) ==
    /\ IF ~HeatPermitted("destroy", user)
       THEN HeatDenied("Heat.destroy")
       ELSE IF pk \notin Pks(heats)
       THEN Respond("Heat.destroy", "404", {}) /\ UNCHANGED <<heats, heatPk>>
       ELSE /\ heats' = {r \in heats : r.pk # pk}
            /\ Respond("Heat.destroy", "204", {})
            /\ UNCHANGED heatPk
    /\ HeatFrame

\* The three overridden methods raise MethodNotAllowed once the permission
\* check has let the request through.
HeatRefused(action, op, user, pk) ==
    /\ Respond(op, IF HeatPermitted(action, user) THEN "405" ELSE "403", {})
    /\ UNCHANGED <<heats, heatPk>>
    /\ HeatFrame

HeatPartialUpdateBy(user, pk) == HeatRefused("partial_update", "Heat.partial_update", user, pk)
HeatUpdateBy(user, pk) == HeatRefused("update", "Heat.update", user, pk)
HeatDestroyBy(user, pk) == HeatRefused("destroy", "Heat.destroy", user, pk)

HeatList == \E user \in Roles, query \in Queries : HeatListBy(user, query)
HeatRetrieve == \E user \in Roles, pk \in ApiPks : HeatRetrieveBy(user, pk)
HeatCreate == \E user \in Roles, cow \in Names, valid \in BOOLEAN : HeatCreateBy(user, cow, valid)
HeatPartialUpdate == \E user \in Roles, pk \in ApiPks : HeatPartialUpdateBy(user, pk)
HeatUpdate == \E user \in Roles, pk \in ApiPks : HeatUpdateBy(user, pk)
HeatDestroy == \E user \in Roles, pk \in ApiPks : HeatDestroyBy(user, pk)

NextHeat ==
    \/ HeatList \/ HeatRetrieve \/ HeatCreate
    \/ HeatPartialUpdate \/ HeatUpdate \/ HeatDestroy

\* ------------------------------------------------------------ PregnancyViewSet
PregnancyRow(pk, cow) == [pk |-> pk, cow |-> cow]

PregnancyFrame ==
    /\ ApiFrame
    /\ UNCHANGED <<heats, heatPk, inseminations, inseminationPk>>

\* A get_permissions that lets every role through.
PregnancyPermittedAll(action, user) == user \in Roles

\* PregnancyViewSet.get_permissions, evaluated for the user.
PregnancyPermitted(action, user) ==
    IF action \in {"create", "update", "partial_update", "destroy"}
    THEN IsFarmManager(user) \/ IsFarmOwner(user)
    ELSE \/ IsFarmWorker(user) \/ IsTeamLeader(user) \/ IsAssistantFarmManager(user)
         \/ IsFarmManager(user) \/ IsFarmOwner(user)

PregnancyDenied(op) ==
    /\ Respond(op, "403", {})
    /\ UNCHANGED <<pregnancies, pregnancyPk>>

PregnancyListBy(user, query) ==
    /\ IF PregnancyPermitted("list", user)
       THEN /\ ListResponse("Pregnancy.list", pregnancies, query)
            /\ UNCHANGED <<pregnancies, pregnancyPk>>
       ELSE PregnancyDenied("Pregnancy.list")
    /\ PregnancyFrame

PregnancyRetrieveBy(user, pk) ==
    /\ IF PregnancyPermitted("retrieve", user)
       THEN /\ RetrieveResponse("Pregnancy.retrieve", pregnancies, pk)
            /\ UNCHANGED <<pregnancies, pregnancyPk>>
       ELSE PregnancyDenied("Pregnancy.retrieve")
    /\ PregnancyFrame

\* CreateModelMixin.create.
PregnancyCreateBy(user, cow, valid) ==
    /\ pregnancyPk <= MaxApiRows
    /\ IF ~PregnancyPermitted("create", user)
       THEN PregnancyDenied("Pregnancy.create")
       ELSE IF ~valid
       THEN Respond("Pregnancy.create", "400", {}) /\ UNCHANGED <<pregnancies, pregnancyPk>>
       ELSE /\ pregnancies' = pregnancies \cup {PregnancyRow(pregnancyPk, cow)}
            /\ pregnancyPk' = pregnancyPk + 1
            /\ Respond("Pregnancy.create", "201", {PregnancyRow(pregnancyPk, cow)})
    /\ PregnancyFrame

\* UpdateModelMixin.update, with partial=True for partial_update: 404 for a
\* record that is not stored, 400 when the serializer rejects the data.
PregnancyWrite(action, op, user, pk, cow, valid) ==
    /\ IF ~PregnancyPermitted(action, user)
       THEN PregnancyDenied(op)
       ELSE IF pk \notin Pks(pregnancies)
       THEN Respond(op, "404", {}) /\ UNCHANGED <<pregnancies, pregnancyPk>>
       ELSE IF ~valid
       THEN Respond(op, "400", {}) /\ UNCHANGED <<pregnancies, pregnancyPk>>
       ELSE /\ pregnancies' = {r \in pregnancies : r.pk # pk} \cup {PregnancyRow(pk, cow)}
            /\ Respond(op, "200", {PregnancyRow(pk, cow)})
            /\ UNCHANGED pregnancyPk
    /\ PregnancyFrame

PregnancyUpdateBy(user, pk, cow, valid) ==
    PregnancyWrite("update", "Pregnancy.update", user, pk, cow, valid)

PregnancyPartialUpdateBy(user, pk, cow, valid) ==
    PregnancyWrite("partial_update", "Pregnancy.partial_update", user, pk, cow, valid)

\* DestroyModelMixin.destroy.
PregnancyDestroyBy(user, pk) ==
    /\ IF ~PregnancyPermitted("destroy", user)
       THEN PregnancyDenied("Pregnancy.destroy")
       ELSE IF pk \notin Pks(pregnancies)
       THEN Respond("Pregnancy.destroy", "404", {}) /\ UNCHANGED <<pregnancies, pregnancyPk>>
       ELSE /\ pregnancies' = {r \in pregnancies : r.pk # pk}
            /\ Respond("Pregnancy.destroy", "204", {})
            /\ UNCHANGED pregnancyPk
    /\ PregnancyFrame

PregnancyList == \E user \in Roles, query \in Queries : PregnancyListBy(user, query)
PregnancyRetrieve == \E user \in Roles, pk \in ApiPks : PregnancyRetrieveBy(user, pk)
PregnancyCreate ==
    \E user \in Roles, cow \in Names, valid \in BOOLEAN : PregnancyCreateBy(user, cow, valid)
PregnancyUpdate ==
    \E user \in Roles, pk \in ApiPks, cow \in Names, valid \in BOOLEAN :
        PregnancyUpdateBy(user, pk, cow, valid)
PregnancyPartialUpdate ==
    \E user \in Roles, pk \in ApiPks, cow \in Names, valid \in BOOLEAN :
        PregnancyPartialUpdateBy(user, pk, cow, valid)
PregnancyDestroy == \E user \in Roles, pk \in ApiPks : PregnancyDestroyBy(user, pk)

NextPregnancy ==
    \/ PregnancyList \/ PregnancyRetrieve \/ PregnancyCreate
    \/ PregnancyUpdate \/ PregnancyPartialUpdate \/ PregnancyDestroy

SpecPregnancy == Init /\ [][NextPregnancy]_vars

\* Requests to the heat and pregnancy endpoints, in any order.
NextReproduction == NextHeat \/ NextPregnancy

SpecReproduction == Init /\ [][NextReproduction]_vars

\* --------------------------------------------------------- InseminationViewset
\* pregnancy is the pk of the pregnancy the insemination led to, or NoPk.
InseminationRow(pk, cow, pregnancy) == [pk |-> pk, cow |-> cow, pregnancy |-> pregnancy]

InseminationFrame ==
    /\ ApiFrame
    /\ UNCHANGED <<heats, heatPk, pregnancies, pregnancyPk>>

\* permission_classes of the viewset, evaluated for the user.
InseminationPermitted(user) ==
    IsAssistantFarmManager(user) \/ IsFarmManager(user) \/ IsFarmOwner(user)

InseminationDenied(op) ==
    /\ Respond(op, "403", {})
    /\ UNCHANGED <<inseminations, inseminationPk>>

InseminationListBy(user, query) ==
    /\ IF InseminationPermitted(user)
       THEN /\ ListResponse("Insemination.list", inseminations, query)
            /\ UNCHANGED <<inseminations, inseminationPk>>
       ELSE InseminationDenied("Insemination.list")
    /\ InseminationFrame

InseminationRetrieveBy(user, pk) ==
    /\ IF InseminationPermitted(user)
       THEN /\ RetrieveResponse("Insemination.retrieve", inseminations, pk)
            /\ UNCHANGED <<inseminations, inseminationPk>>
       ELSE InseminationDenied("Insemination.retrieve")
    /\ InseminationFrame

\* CreateModelMixin.create; the record may come to be associated with a
\* pregnancy that is stored.
InseminationCreateBy(user, cow, pregnancy, valid) ==
    /\ inseminationPk <= MaxApiRows
    /\ IF ~InseminationPermitted(user)
       THEN InseminationDenied("Insemination.create")
       ELSE IF ~valid
       THEN /\ Respond("Insemination.create", "400", {})
            /\ UNCHANGED <<inseminations, inseminationPk>>
       ELSE /\ inseminations' =
                  inseminations \cup {InseminationRow(inseminationPk, cow, pregnancy)}
            /\ inseminationPk' = inseminationPk + 1
            /\ Respond("Insemination.create", "201",
                       {InseminationRow(inseminationPk, cow, pregnancy)})
    /\ InseminationFrame

\* update (UpdateModelMixin) and the overridden partial_update: get_object(),
\* the serializer's validation, save(), 200.
InseminationWrite(op, user, pk, cow, valid) ==
    /\ IF ~InseminationPermitted(user)
       THEN InseminationDenied(op)
       ELSE IF pk \notin Pks(inseminations)
       THEN Respond(op, "404", {}) /\ UNCHANGED <<inseminations, inseminationPk>>
       ELSE IF ~valid
       THEN Respond(op, "400", {}) /\ UNCHANGED <<inseminations, inseminationPk>>
       ELSE LET row == InseminationRow(pk, cow, Get(inseminations, pk).pregnancy)
            IN  /\ inseminations' = {r \in inseminations : r.pk # pk} \cup {row}
                /\ Respond(op, "200", {row})
                /\ UNCHANGED inseminationPk
    /\ InseminationFrame

InseminationUpdateBy(user, pk, cow, valid) ==
    InseminationWrite("Insemination.update", user, pk, cow, valid)

InseminationPartialUpdateBy(user, pk, cow, valid) ==
    InseminationWrite("Insemination.partial_update", user, pk, cow, valid)

\* A destroy left to DestroyModelMixin: the record is deleted whatever it is
\* associated with.
InseminationDestroyAny(pk) ==
    IF pk \notin Pks(inseminations)
    THEN Respond("Insemination.destroy", "404", {}) /\ UNCHANGED <<inseminations, inseminationPk>>
    ELSE /\ inseminations' = {r \in inseminations : r.pk # pk}
         /\ Respond("Insemination.destroy", "204", {})
         /\ UNCHANGED inseminationPk

\* InseminationViewset.destroy: get_object() or 404, PermissionDenied for a
\* record with a pregnancy, else perform_destroy and 204.
InseminationDestroyMethod(pk) ==
    IF pk \notin Pks(inseminations)
    THEN Respond("Insemination.destroy", "404", {}) /\ UNCHANGED <<inseminations, inseminationPk>>
    ELSE IF Get(inseminations, pk).pregnancy # NoPk
    THEN Respond("Insemination.destroy", "403", {}) /\ UNCHANGED <<inseminations, inseminationPk>>
    ELSE /\ inseminations' = {r \in inseminations : r.pk # pk}
         /\ Respond("Insemination.destroy", "204", {})
         /\ UNCHANGED inseminationPk

\* A DELETE request: the permission check, then destroy.
InseminationDestroyBy(user, pk) ==
    /\ IF InseminationPermitted(user)
       THEN InseminationDestroyMethod(pk)
       ELSE InseminationDenied("Insemination.destroy")
    /\ InseminationFrame

InseminationList == \E user \in Roles, query \in Queries : InseminationListBy(user, query)
InseminationRetrieve == \E user \in Roles, pk \in ApiPks : InseminationRetrieveBy(user, pk)
InseminationCreate ==
    \E user \in Roles, cow \in Names, pregnancy \in {NoPk} \cup Pks(pregnancies),
       valid \in BOOLEAN :
        InseminationCreateBy(user, cow, pregnancy, valid)
InseminationUpdate ==
    \E user \in Roles, pk \in ApiPks, cow \in Names, valid \in BOOLEAN :
        InseminationUpdateBy(user, pk, cow, valid)
InseminationPartialUpdate ==
    \E user \in Roles, pk \in ApiPks, cow \in Names, valid \in BOOLEAN :
        InseminationPartialUpdateBy(user, pk, cow, valid)
InseminationDestroy == \E user \in Roles, pk \in ApiPks : InseminationDestroyBy(user, pk)

\* A POST to the pregnancy endpoint by the farm owner with valid data for
\* General Cow: PregnancyViewSet's create, which stores the pregnancy.
PregnancyRecorded == PregnancyCreateBy("farm_owner", "General Cow", TRUE)

\* Requests to the insemination endpoints, and the creation of the
\* pregnancies the records may be associated with.
NextInsemination ==
    \/ InseminationList \/ InseminationRetrieve \/ InseminationCreate
    \/ InseminationUpdate \/ InseminationPartialUpdate \/ InseminationDestroy
    \/ PregnancyRecorded

SpecInsemination == Init /\ [][NextInsemination]_vars

\* ------------------------------------------------------------------ claims
\* Vocabulary of the claims: the step just taken and the singleton's counters.
CowMutationOk ==
    /\ result'.op \in {"Cow.create", "Cow.update", "Cow.delete"}
    /\ result'.outcome = "ok"

Singleton(inv) == CHOOSE r \in inv : TRUE

Alive(table) == {r \in table : r.availability_status = "Alive"}
WithStatus(table, st) == {r \in table : r.availability_status = st}
OfGender(table, g) == {r \in table : r.gender = g}

\* C1: after any sequence of Cow creates, updates and deletes from the empty
\* database, the five counters of CowInventory equal a fresh full scan of the
\* Cow rows that exist (and there is no inventory row only while no Cow has
\* ever been written).
C1_CountersEqualFullScan ==
    /\ inventory = {} => (cows = {} /\ nextPk = 1)
    /\ \A i \in inventory :
        /\ i.total_number_of_cows = Cardinality(Alive(cows))
        /\ i.number_of_male_cows = Cardinality(OfGender(Alive(cows), "Male"))
        /\ i.number_of_female_cows = Cardinality(OfGender(Alive(cows), "Female"))
        /\ i.number_of_sold_cows = Cardinality(WithStatus(cows, "Sold"))
        /\ i.number_of_dead_cows = Cardinality(WithStatus(cows, "Dead"))

\* Two cows were created and one deleted; the one left is dead.
C1_Witness ==
    /\ nextPk = 3
    /\ Cardinality(cows) = 1
    /\ \E r \in cows : r.availability_status = "Dead"
    /\ result = Outcome("Cow.delete", "ok")
    /\ \E i \in inventory : i.number_of_dead_cows = 1 /\ i.total_number_of_cows = 0

\* C2 (as claimed): every successful Cow mutation adds exactly one history row.
C2_OneHistoryRowPerMutation ==
    [][CowMutationOk => Len(history') = Len(history) + 1]_vars

\* C2 (amended): a successful Cow mutation adds exactly one history row when
\* the inventory row already exists, and exactly two when the mutation is the
\* one that creates the inventory row.
C2_HistoryRowsPerMutation ==
    [][CowMutationOk =>
          Len(history') = Len(history) + (IF inventory = {} THEN 2 ELSE 1)]_vars

\* A mutation on an existing inventory row has run: three history rows.
C2_Witness ==
    /\ Len(history) = 3
    /\ result.outcome = "ok"
    /\ result.op \in {"Cow.update", "Cow.delete"}

\* C3: from the empty database, right after the first Cow is created the
\* history table holds exactly 2 rows.
C3_TwoRowsAfterFirstCow ==
    (nextPk = 2 /\ result = Outcome("Cow.create", "ok")) => Len(history) = 2

C3_Witness ==
    /\ nextPk = 2
    /\ result = Outcome("Cow.create", "ok")
    /\ Cardinality(cows) = 1
    /\ Len(history) = 2

\* C5: total, male and female count Alive cows only; an update that turns an
\* Alive cow into a Sold (Dead) one lowers total and the counter of the cow's
\* gender by one, raises sold (dead) by one and leaves the other counters;
\* one Alive female cow gives total=1, female=1, male=0, and that cow marked
\* Sold gives total=0, female=0, sold=1, dead=0.
C5_AliveOnly ==
    \A i \in inventory :
        /\ i.total_number_of_cows = Cardinality(WithStatus(cows, "Alive"))
        /\ (\E r \in cows : cows = {r} /\ r.gender = "Female"
                            /\ r.availability_status = "Alive")
              => CountersOf(i) = Counters(1, 0, 1, 0, 0)
        /\ (\E r \in cows : cows = {r} /\ r.gender = "Female"
                            /\ r.availability_status = "Sold")
              => CountersOf(i) = Counters(0, 0, 0, 1, 0)

C5_Leaves(pk, to) ==
    LET old == Get(cows, pk)
        new == Get(cows', pk)
    IN  (/\ result' = Outcome("Cow.update", "ok")
         /\ old.availability_status = "Alive"
         /\ new.availability_status = to)
        => /\ inventory # {} /\ inventory' # {}
           /\ LET b == Singleton(inventory)
                  a == Singleton(inventory')
                  male == IF old.gender = "Male" THEN 1 ELSE 0
                  female == IF old.gender = "Female" THEN 1 ELSE 0
              IN  /\ a.total_number_of_cows = b.total_number_of_cows - 1
                  /\ a.number_of_male_cows = b.number_of_male_cows - male
                  /\ a.number_of_female_cows = b.number_of_female_cows - female
                  /\ a.number_of_sold_cows =
                        b.number_of_sold_cows + (IF to = "Sold" THEN 1 ELSE 0)
                  /\ a.number_of_dead_cows =
                        b.number_of_dead_cows + (IF to = "Dead" THEN 1 ELSE 0)

C5_AliveCowSoldOrDead ==
    /\ []C5_AliveOnly
    /\ [][\A pk \in Pks(cows) \cap Pks(cows') :
             C5_Leaves(pk, "Sold") /\ C5_Leaves(pk, "Dead")]_vars

\* The only cow, a female, has been marked Sold by an update.
C5_Witness ==
    /\ result = Outcome("Cow.update", "ok")
    /\ \E r \in cows : cows = {r} /\ r.gender = "Female"
                       /\ r.availability_status = "Sold"
    /\ \E i \in inventory : CountersOf(i) = Counters(0, 0, 0, 1, 0)

\* C6: a delete updates the inventory: the row still exists, its counters
\* are those before the delete less the deleted cow, and all five are 0 when
\* the deleted cow was the only one.
C6_Contribution(r) ==
    LET alive == r.availability_status = "Alive"
    IN  Counters(IF alive THEN 1 ELSE 0,
                 IF alive /\ r.gender = "Male" THEN 1 ELSE 0,
                 IF alive /\ r.gender = "Female" THEN 1 ELSE 0,
                 IF r.availability_status = "Sold" THEN 1 ELSE 0,
                 IF r.availability_status = "Dead" THEN 1 ELSE 0)

C6_DeleteUpdatesInventory ==
    [][result' = Outcome("Cow.delete", "ok") =>
          /\ inventory # {} /\ inventory' # {}
          /\ \A d \in cows \ cows' :
                LET b == Singleton(inventory)
                    a == Singleton(inventory')
                    c == C6_Contribution(d)
                IN  /\ a.total_number_of_cows =
                          b.total_number_of_cows - c.total_number_of_cows
                    /\ a.number_of_male_cows =
                          b.number_of_male_cows - c.number_of_male_cows
                    /\ a.number_of_female_cows =
                          b.number_of_female_cows - c.number_of_female_cows
                    /\ a.number_of_sold_cows =
                          b.number_of_sold_cows - c.number_of_sold_cows
                    /\ a.number_of_dead_cows =
                          b.number_of_dead_cows - c.number_of_dead_cows
          /\ cows' = {} => CountersOf(Singleton(inventory')) = ZeroCounters]_vars

\* The only cow has been deleted and the inventory row reads all zero.
C6_Witness ==
    /\ result = Outcome("Cow.delete", "ok")
    /\ cows = {}
    /\ nextPk = 2
    /\ \E i \in inventory : CountersOf(i) = ZeroCounters

\* C7: the CowInventory table holds at most one row, and exactly one once a
\* Cow mutation has happened.
C7_InventorySingleton ==
    /\ Cardinality(inventory) <= 1
    /\ nextPk > 1 => Cardinality(inventory) = 1

C7_Witness ==
    /\ Cardinality(inventory) = 1
    /\ nextPk = 3
    /\ Len(history) = 4

\* C8: the history is append-only: every step leaves the rows already in the
\* history table in place and unchanged.
C8_HistoryAppendOnly ==
    [][/\ Len(history') >= Len(history)
       /\ SubSeq(history', 1, Len(history)) = history]_vars

\* Four snapshots have piled up, the latest unlike the one before it.
C8_Witness ==
    /\ Len(history) = 4
    /\ history[4] # history[3]

\* C9: a cow's gender is immutable: no step changes the gender of a stored cow.
C9_GenderImmutable ==
    [][\A pk \in Pks(cows) \cap Pks(cows') :
          Get(cows', pk).gender = Get(cows, pk).gender]_vars

\* C4: the recomputation is atomic with the Cow mutation: whenever no
\* operation is under way, the inventory reflects the Cow rows persisted (a
\* mutation whose recomputation failed is not persisted either).
C4_RecomputationAtomic ==
    pc = "idle" =>
        /\ inventory = {} => cows = {}
        /\ \A i \in inventory : CountersOf(i) = ScanCows(cows)

\* C10: creating a disease with is_recovered=True and an empty
\* recovered_date raises a validation error and stores nothing, and no
\* stored disease has is_recovered=True with an empty recovered_date.
C10_RecoveredNeedsDate ==
    /\ [](\A r \in diseases : ~(r.is_recovered /\ r.recovered_date = NoDate))
    /\ [][result'.op = "CowDisease.create" =>
            \A d \in DiseaseFields :
                (/\ DiseaseCreateOf(d)
                 /\ d.is_recovered
                 /\ d.recovered_date = NoDate)
                => /\ result'.outcome = "ValidationError"
                   /\ diseases' = diseases]_vars

\* C11: a recovery date implies the recovered flag: clean() of a disease
\* with a recovered_date and is_recovered=False raises ValidationError,
\* whatever the other fields are.
C11_RecoveredDateNeedsFlag ==
    [][\A pk \in {NoPk} \cup Pks(diseases), d \in DiseaseFields :
          (/\ DiseaseCleanOn(pk, d)
           /\ d.recovered_date # NoDate
           /\ ~d.is_recovered)
          => result'.outcome = "ValidationError"]_vars

\* C13: clean() of a CowDisease returns normally or raises ValidationError,
\* and never any other exception, for every combination of field values.
C13_OnlyValidationErrors ==
    result.op = "CowDisease.clean" => result.outcome \in {"none", "ValidationError"}

\* C20: clean() of a disease whose recovered_date is not after its
\* date_reported raises ValidationError.
C20_RecoveredAfterReported ==
    [][\A pk \in {NoPk} \cup Pks(diseases), d \in DiseaseFields :
          (/\ DiseaseCleanOn(pk, d)
           /\ d.recovered_date # NoDate
           /\ d.date_reported # NoDate
           /\ d.recovered_date <= d.date_reported)
          => result'.outcome = "ValidationError"]_vars

\* C16: creating a breed whose name is not a CowBreedChoices value is
\* rejected with code invalid_cow_breed, creating one whose name an existing
\* breed has is rejected with code duplicate_cow_breed, and no two stored
\* breeds share a name.
C16_BreedNamesValidUnique ==
    /\ [](\A a, b \in breeds :
            /\ a.name \in CowBreedChoices
            /\ a.name = b.name => a.pk = b.pk)
    /\ [][\A name \in BreedNames :
            BreedSave(NoPk, name) =>
                /\ name \notin CowBreedChoices =>
                       result'.outcome = "invalid_cow_breed"
                /\ (\E b \in breeds : b.name = name) =>
                       result'.outcome = "duplicate_cow_breed"]_vars

\* A second breed of a stored name has been refused.
C16_Witness ==
    /\ result = Outcome("CowBreed.create", "duplicate_cow_breed")
    /\ Cardinality(breeds) = 1

\* Vocabulary of the health claims: the instances a weight save may be given.
WeightSaves == {"WeightRecord.create", "WeightRecord.update"}
WeightCandidates == WeightFields({NoDate} \cup Days)
WeightTargets == {NoPk} \cup Pks(weights)

\* C19: saving a WeightRecord whose weight_in_kgs is zero or less is
\* rejected, and every stored weight record has a weight above zero.
C19_WeightPositive ==
    /\ [](\A r \in weights : r.weight_in_kgs > 0)
    /\ [][result'.op \in WeightSaves =>
            \A pk \in WeightTargets, w \in WeightCandidates :
                (WeightSave(pk, w) /\ w.weight_in_kgs <= 0) =>
                    /\ result'.outcome # "ok"
                    /\ weights' = weights]_vars

\* A weight of zero or less has been refused while a record is stored.
C19_Witness ==
    /\ result = Outcome("WeightRecord.create", "validate_weight")
    /\ weights # {}

\* C17: saving a WeightRecord whose cow is Dead is rejected and stores no
\* record.
C17_NoWeightForDeadCow ==
    [][result'.op \in WeightSaves =>
          \A pk \in WeightTargets, w \in WeightCandidates :
              (WeightSave(pk, w) /\ Get(cows, w.cow).availability_status = "Dead") =>
                  /\ result'.outcome # "ok"
                  /\ weights' = weights]_vars

\* A record of positive weight for a dead cow has been refused.
C17_Witness ==
    /\ result = Outcome("WeightRecord.create", "validate_cow_availability_status")
    /\ \E c \in cows : c.availability_status = "Dead"

\* C18: no two stored weight records of one cow have the same date_taken: a
\* second record of the cow for a day it already has one is rejected.
C18_OneWeightPerCowPerDay ==
    \A a, b \in weights :
        (a.cow = b.cow /\ a.date_taken = b.date_taken) => a.pk = b.pk

\* C12: no stored QuarantineRecord has an end_date earlier than its
\* start_date: a save of such a record, new or stored, is rejected.
C12_EndNotBeforeStart ==
    \A q \in quarantines : q.end_date # NoDate => q.end_date >= q.start_date

\* The orders of checks C14 names, and the checks an instance fails.
NewCowOrder ==
    <<"validate_pregnancy_status", "validate_uniqueness", "validate_cow_age",
      "validate_gender_update", "validate_sire_dam_relationship",
      "validate_production_status_1", "validate_pregnancy_status",
      "validate_date_of_death">>
WeightOrder ==
    <<"validate_weight", "validate_cow_availability_status",
      "validate_frequency_of_weight_records">>
QuarantineOrder == <<"validate_reason", "validate_date">>

NewCowFails(c, viol) ==
    viol \cup Raising("validate_uniqueness", validate_uniqueness(c.name))
         \cup Raising("validate_gender_update", validate_gender_update(NoPk, c.gender))
         \cup Raising("validate_date_of_death",
                      validate_date_of_death(c.availability_status, c.date_of_death))

WeightFails(w) ==
    Raising("validate_weight", validate_weight(w.weight_in_kgs))
        \cup Raising("validate_cow_availability_status",
                     validate_cow_availability_status(w.cow))
        \cup Raising("validate_frequency_of_weight_records",
                     validate_frequency_of_weight_records(w.date_taken, w.cow))

QuarantineFails(q, viol) ==
    viol \cup Raising("validate_date", validate_date(q.start_date, q.end_date))

\* The earliest check of the order that is among the failing ones, or "ok".
FirstFailing(order, fails) ==
    LET at == {i \in 1..Len(order) : order[i] \in fails}
    IN  IF at = {} THEN "ok"
        ELSE order[CHOOSE i \in at : \A j \in at : i <= j]

QuarantineSaves == {"QuarantineRecord.create", "QuarantineRecord.update"}
QuarantineCandidates == QuarantineFields({NoDate} \cup Days)
QuarantineTargets == {NoPk} \cup Pks(quarantines)

\* The checks of an order that are reached: all of them when none fails,
\* else those up to and including the earliest failing one.
Reached(order, fails) ==
    LET at == {i \in 1..Len(order) : order[i] \in fails}
    IN  IF at = {} THEN order
        ELSE SubSeq(order, 1, CHOOSE i \in at : \A j \in at : i <= j)

\* What the first failing check leaves to decide: it is the outcome when a
\* check fails, and when none fails the outcome is that of the write, "ok"
\* or the error of the database.
Decided(order, fails, outcome) ==
    IF FirstFailing(order, fails) = "ok"
    THEN outcome \in {"ok", "IntegrityError"}
    ELSE outcome = FirstFailing(order, fails)

\* C14: the outcome of a save is that of the earliest failing check, and the
\* checks called are those of the order up to that one and no later one: for
\* a new Cow in the order pregnancy status, name uniqueness, age, gender
\* update, sire/dam relationship, production status, pregnancy status, date
\* of death; for a WeightRecord weight, cow availability, frequency; for a
\* QuarantineRecord reason, then dates.
C14_FirstFailingCheckReported ==
    [][/\ result'.op = "Cow.create" =>
            \A c \in HerdCowFields, viol \in SUBSET NewCowRules :
                CowSave(NoPk, c, viol) =>
                    /\ result'.outcome = FirstFailing(NewCowOrder, NewCowFails(c, viol))
                    /\ called' = Reached(NewCowOrder, NewCowFails(c, viol))
       /\ result'.op \in WeightSaves =>
            \A pk \in WeightTargets, w \in WeightCandidates :
                (WeightOp(pk) = result'.op /\ WeightSave(pk, w)) =>
                    /\ Decided(WeightOrder, WeightFails(w), result'.outcome)
                    /\ called' = Reached(WeightOrder, WeightFails(w))
       /\ result'.op \in QuarantineSaves =>
            \A pk \in QuarantineTargets, q \in QuarantineCandidates,
               viol \in SUBSET QuarantineRules :
                (QuarantineOp(pk) = result'.op /\ QuarantineSave(pk, q, viol)) =>
                    /\ Decided(QuarantineOrder, QuarantineFails(q, viol),
                               result'.outcome)
                    /\ called' = Reached(QuarantineOrder, QuarantineFails(q, viol))]_vars

\* A weight record for a dead cow that already has one for the date fails
\* two checks; its save has been refused for the cow, the earlier of the
\* two, and the frequency check was not called.
C14_Witness ==
    /\ result = Outcome("WeightRecord.create", "validate_cow_availability_status")
    /\ called = <<"validate_weight", "validate_cow_availability_status">>
    /\ \E w \in WeightCandidates :
           WeightFails(w) = {"validate_cow_availability_status",
                             "validate_frequency_of_weight_records"}

\* The save operations of the four entities with a validating save().
CheckedSaves ==
    {"Cow.create", "Cow.update", "CowBreed.create", "CowBreed.update"}
        \cup WeightSaves \cup QuarantineSaves

\* C15: a save() of a Cow, CowBreed, WeightRecord or QuarantineRecord that
\* fails a check leaves the entity's table, the CowInventory row and the
\* CowInventoryUpdateHistory table exactly as they were.
C15_FailedSaveChangesNothing ==
    [][(result'.op \in CheckedSaves /\ result'.outcome # "ok") =>
          UNCHANGED <<cowVars, farmVars>>]_vars

\* The update of a stored quarantine record has been refused for its dates.
C15_Witness ==
    /\ result = Outcome("QuarantineRecord.update", "validate_date")
    /\ quarantines # {}
    /\ inventory # {}

\* C21: clean() of a disease with a name, a pathogen, a date_reported not in
\* the future, is_recovered=True, a recovered_date and at least one treatment
\* returns without any error.
C21_ConsistentRecoveredPasses ==
    [][result'.op = "CowDisease.clean" =>
          \A r \in diseases, d \in DiseaseFields :
              (/\ DiseaseCleanOn(r.pk, d)
               /\ r.treated
               /\ d.name # ""
               /\ d.pathogen # NoPathogen
               /\ d.date_reported # NoDate
               /\ d.date_reported <= today
               /\ d.is_recovered
               /\ d.recovered_date # NoDate)
              => result'.outcome = "none"]_vars

\* C22: update (PUT), partial_update (PATCH) and destroy (DELETE) on a heat
\* record leave the Heat records unchanged for every caller and request, and
\* a caller who passes the permission check is answered 405.
C22_HeatRecordsImmutable ==
    [][result'.op \in {"Heat.update", "Heat.partial_update", "Heat.destroy"} =>
          /\ heats' = heats
          /\ \A user \in Roles, pk \in ApiPks :
                /\ (HeatUpdateBy(user, pk) /\ HeatPermitted("update", user))
                       => result'.outcome = "405"
                /\ (HeatPartialUpdateBy(user, pk) /\ HeatPermitted("partial_update", user))
                       => result'.outcome = "405"
                /\ (HeatDestroyBy(user, pk) /\ HeatPermitted("destroy", user))
                       => result'.outcome = "405"]_vars

\* A DELETE on a stored heat record has been answered 405.
C22_Witness ==
    /\ result = Outcome("Heat.destroy", "405")
    /\ heats # {}

\* C23: list and retrieve on HeatViewSet are permitted for each of the five
\* roles; create is permitted for farm workers, assistant farm managers, farm
\* managers and farm owners.
C23_HeatReadableByAll ==
    [][\A user \in Roles :
          /\ \A query \in Queries :
                HeatListBy(user, query) => result'.outcome # "403"
          /\ \A pk \in ApiPks :
                HeatRetrieveBy(user, pk) => result'.outcome # "403"
          /\ \A cow \in Names, valid \in BOOLEAN :
                (HeatCreateBy(user, cow, valid) /\ user # "team_leader")
                    => result'.outcome # "403"]_vars

\* C24: create, update, partial_update and destroy of a pregnancy record by a
\* user who is neither farm manager nor farm owner are denied and leave the
\* Pregnancy records unchanged, and are let through for those two roles; list
\* and retrieve are permitted for all five roles.
C24_PregnancyWritesByManagers ==
    [][\A user \in Roles :
          LET denied == result'.outcome = "403" /\ pregnancies' = pregnancies
              manager == user \in {"farm_manager", "farm_owner"}
          IN  /\ result'.op = "Pregnancy.list" =>
                    \A query \in Queries :
                        PregnancyListBy(user, query) => result'.outcome # "403"
              /\ result'.op = "Pregnancy.retrieve" =>
                    \A pk \in ApiPks :
                        PregnancyRetrieveBy(user, pk) => result'.outcome # "403"
              /\ result'.op = "Pregnancy.destroy" =>
                    \A pk \in ApiPks :
                        PregnancyDestroyBy(user, pk) => (denied <=> ~manager)
              /\ result'.op = "Pregnancy.create" =>
                    \A cow \in Names, valid \in BOOLEAN :
                        PregnancyCreateBy(user, cow, valid) => (denied <=> ~manager)
              /\ result'.op = "Pregnancy.update" =>
                    \A pk \in ApiPks, cow \in Names, valid \in BOOLEAN :
                        PregnancyUpdateBy(user, pk, cow, valid) => (denied <=> ~manager)
              /\ result'.op = "Pregnancy.partial_update" =>
                    \A pk \in ApiPks, cow \in Names, valid \in BOOLEAN :
                        PregnancyPartialUpdateBy(user, pk, cow, valid)
                            => (denied <=> ~manager)]_vars

\* A farm worker's DELETE of a stored pregnancy record has been denied.
C24_Witness ==
    /\ result = Outcome("Pregnancy.destroy", "403")
    /\ pregnancies # {}

\* C25: an insemination record associated with a pregnancy is never deleted
\* through destroy: the request is refused and the record remains; destroy of
\* a record not associated with a pregnancy removes exactly that record and
\* answers 204.
C25_InseminationWithPregnancyKept ==
    [][result'.op = "Insemination.destroy" =>
          /\ \A r \in inseminations : r.pregnancy # NoPk => r \in inseminations'
          /\ \A pk \in Pks(inseminations) :
                InseminationDestroyMethod(pk) =>
                    IF Get(inseminations, pk).pregnancy # NoPk
                    THEN /\ result'.outcome = "403"
                         /\ inseminations' = inseminations
                    ELSE /\ result'.outcome = "204"
                         /\ inseminations' = inseminations \ {Get(inseminations, pk)}]_vars

\* A record without pregnancy has been deleted while one with a pregnancy is
\* stored.
C25_Witness ==
    /\ result = Outcome("Insemination.destroy", "204")
    /\ \E r \in inseminations : r.pregnancy # NoPk

\* The table a list operation reads.
ListedTable(op) ==
    IF op = "Pregnancy.list" THEN pregnancies
    ELSE IF op = "Heat.list" THEN heats
    ELSE inseminations

\* C26: list of pregnancy, heat and insemination records answers 404 when
\* records exist but none match the filters, 200 when there are no records of
\* that kind, whether or not query parameters were sent, and 200 with the
\* serialized records when the filtered set is not empty; it changes no record.
C26_ListStatus ==
    [][result'.op \in {"Pregnancy.list", "Heat.list", "Insemination.list"} =>
          /\ UNCHANGED <<pregnancies, heats, inseminations>>
          /\ \A query \in Queries :
                LET table == ListedTable(result'.op)
                    found == FilterQueryset(table, query)
                IN  ListResponse(result'.op, table, query) =>
                        /\ (table # {} /\ found = {}) => result'.outcome = "404"
                        /\ table = {} => result'.outcome = "200"
                        /\ found # {} => (result'.outcome = "200" /\ body' = found)]_vars

\* C27: in every reachable state the inventory's total_number_of_cows equals
\* number_of_male_cows plus number_of_female_cows and none of the five
\* counters is negative.
C27_CountersConsistent ==
    \A row \in inventory :
        /\ row.total_number_of_cows = row.number_of_male_cows + row.number_of_female_cows
        /\ row.total_number_of_cows >= 0
        /\ row.number_of_male_cows >= 0
        /\ row.number_of_female_cows >= 0
        /\ row.number_of_sold_cows >= 0
        /\ row.number_of_dead_cows >= 0

\* C28: every stored cow whose availability_status is Dead has a
\* date_of_death, after any sequence of creates and updates.
C28_DeadCowHasDateOfDeath ==
    \A c \in cows : c.availability_status = "Dead" => c.date_of_death # NoDate

\* C29: a successful update of a stored cow leaves its
\* date_introduced_in_farm unchanged.
C29_DateIntroducedFixed ==
    [][(result'.op = "Cow.update" /\ result'.outcome = "ok") =>
          \A old \in cows, new \in cows' :
              new.pk = old.pk =>
                  new.date_introduced_in_farm = old.date_introduced_in_farm]_vars

\* No stored record references a cow or a breed that is not stored.
ReferencesResolve ==
    /\ \A w \in weights : w.cow \in Pks(cows)
    /\ \A q \in quarantines : q.cow \in Pks(cows)
    /\ \A k \in cullings : k.cow \in Pks(cows)
    /\ \A p \in parents : /\ p.cow \in Pks(cows)
                          /\ p.breed \in Pks(breeds)
                          /\ p.sire \in {NoPk} \cup Pks(cows)
                          /\ p.dam \in {NoPk} \cup Pks(cows)

\* What a delete of a cow removes and what it keeps.
CowDeleteCascades ==
    result'.op = "Cow.delete" =>
        \E pk \in Pks(cows) :
            /\ cows' = {r \in cows : r.pk # pk}
            /\ weights' = {w \in weights : w.cow # pk}
            /\ quarantines' = {q \in quarantines : q.cow # pk}
            /\ cullings' = {k \in cullings : k.cow # pk}
            /\ {p.cow : p \in parents'} = {p.cow : p \in parents} \ {pk}
            /\ \A p \in parents, n \in parents' :
                  n.cow = p.cow =>
                      /\ n.breed = p.breed
                      /\ n.sire = (IF p.sire = pk THEN NoPk ELSE p.sire)
                      /\ n.dam = (IF p.dam = pk THEN NoPk ELSE p.dam)

\* A breed that a cow references is not deleted.
ReferencedBreedKept ==
    result'.op = "CowBreed.delete" =>
        \A p \in parents : p.breed \in Pks(breeds')

\* C30: referential integrity holds after every delete: deleting a cow removes
\* its weight, quarantine and culling records, sets to null the sire and dam
\* reference of every cow that named it and keeps those cows, a breed that a
\* cow references cannot be deleted, and so no stored record references a cow
\* or breed that does not exist.
C30_ReferentialIntegrity ==
    /\ []ReferencesResolve
    /\ [][CowDeleteCascades /\ ReferencedBreedKept]_vars

\* A cow that had a weight record is deleted while another cow stays: the
\* weight table is empty again after a record was written.
C30_Witness ==
    /\ result = Outcome("Cow.delete", "ok")
    /\ cows # {}
    /\ parents # {}
    /\ weightPk > 1
    /\ weights = {}

====
